---- MODULE Spec2Model ----
(***************************************************************************)
(* The forward-Euler integrator euler_fw of notebook 55, the callbacks it  *)
(* is given in the notebooks (the decay lambda of notebook 55, rhs of      *)
(* notebook 25) and the mass-action formulation of notebook 25.            *)
(*                                                                         *)
(* Floating-point values are modelled as exact rationals <<num, den>> in   *)
(* lowest terms with den > 0; rounding is not modelled.  Python indices    *)
(* are 0-based: Python's yout[j] is yout[j+1] here, tout[j] is tout[j+1].  *)
(***************************************************************************)
EXTENDS Integers, Sequences, FiniteSets, TLC

VARIABLES
    rhsName,  \* the callback passed as rhs: "decay", "kinetics" or "faulty"
    failAt,   \* the call at which the "faulty" callback raises (0: never)
    y0,       \* caller's initial state, a vector of rationals
    tout,     \* caller's time grid, a sequence of rationals
    params,   \* caller's parameter tuple
    yout,     \* the trajectory buffer, a sequence of rows
    t_old,    \* local t_old
    t,        \* loop variable t
    i,        \* loop variable i (Python value)
    dydt,     \* local dydt
    h,        \* local h
    pc,       \* position in euler_fw
    err,      \* the exception that left euler_fw, "none" if none
    calls,    \* the calls of rhs made so far, in order
    ret,      \* the value returned to the caller (<<>> until pc = "done")
    writes,   \* the indices (Python values) of yout assigned so far, in order
    errAt,    \* the statement at which the exception arose, "none" if none
    \* cy_f and cy_f_fastexp of notebook 55
    cy_fn,    \* the function called: "cy_f" or "cy_f_fastexp"
    cy_x,     \* argument x, a sequence of numbers
    cy_y,     \* argument y
    cy_z,     \* argument z
    cy_out,   \* local out
    cy_ptrs,  \* the pointers _x, _y, _z, _out taken so far
    cy_i,     \* local i
    cy_pc,    \* position in the function
    cy_err,   \* the exception that left the function, "none" if none
    cy_acc,   \* the element accesses made so far: array, index, kind
    cy_ret,   \* the array returned (<<>> until cy_pc = "done")
    \* make_ext of template.pyxbld
    sys_platform,  \* sys.platform
    os_name,       \* os.name
    environ,       \* os.environ, a function from the names that are set
    tmpl,          \* the lists substituted into the template
    ext,           \* the Extension object: its list attributes
    osx,           \* local osx
    win,           \* local win
    posix,         \* local posix
    under_conda,   \* local under_conda
    mk_pc          \* position in make_ext

eulerVars == <<rhsName, failAt, y0, tout, params, yout, t_old, t, i, dydt, h,
               pc, err, calls, ret, writes, errAt>>

cyVars == <<cy_fn, cy_x, cy_y, cy_z, cy_out, cy_ptrs, cy_i, cy_pc, cy_err,
            cy_acc, cy_ret>>

extVars == <<sys_platform, os_name, environ, tmpl, ext, osx, win, posix,
             under_conda, mk_pc>>

vars == <<eulerVars, cyVars, extVars>>

\* the functions that are not running
EulerIdle ==
    /\ rhsName = "decay" /\ failAt = 0
    /\ y0 = <<>> /\ tout = <<>> /\ params = <<>> /\ yout = <<>>
    /\ t_old = <<0, 0>> /\ t = <<0, 0>> /\ h = <<0, 0>>
    /\ i = 0 /\ dydt = <<>>
    /\ pc = "idle" /\ err = "none" /\ calls = <<>> /\ ret = <<>>
    /\ writes = <<>> /\ errAt = "none"

CyIdle ==
    /\ cy_fn = "cy_f"
    /\ cy_x = <<>> /\ cy_y = <<>> /\ cy_z = <<>> /\ cy_out = <<>>
    /\ cy_ptrs = {} /\ cy_i = 0
    /\ cy_pc = "idle" /\ cy_err = "none" /\ cy_acc = <<>> /\ cy_ret = <<>>

ExtIdle ==
    /\ sys_platform = "linux" /\ os_name = "posix"
    /\ environ = <<>> /\ tmpl = <<>> /\ ext = <<>>
    /\ osx = FALSE /\ win = FALSE /\ posix = FALSE /\ under_conda = FALSE
    /\ mk_pc = "idle"

---------------------------------------------------------------------------
(* Bounds of the model *)

\* longest arbitrary time grid
MaxGrid == 3
\* most steps of a uniform grid np.linspace(0, 1, steps + 1)
MaxSteps == 8
\* most forward-Euler steps taken on the three-component kinetics system
KinSteps == 2
\* longest array passed to cy_f and cy_f_fastexp
MaxLen == 2

---------------------------------------------------------------------------
(* Rational arithmetic *)

Abs(x) == IF x < 0 THEN -x ELSE x

RECURSIVE GCD(_, _)
GCD(a, b) == IF b = 0 THEN a ELSE GCD(b, a % b)

Norm(n, d) == LET g == GCD(Abs(n), d) IN <<n \div g, d \div g>>

Q(n) == <<n, 1>>

Frac(n, d) == Norm(n, d)

QNeg(a) == <<-a[1], a[2]>>

QAdd(a, b) ==
    LET l == (a[2] \div GCD(a[2], b[2])) * b[2]
    IN  Norm(a[1] * (l \div a[2]) + b[1] * (l \div b[2]), l)

QSub(a, b) == QAdd(a, QNeg(b))

QMul(a, b) ==
    LET g1 == GCD(Abs(a[1]), b[2])
        g2 == GCD(Abs(b[1]), a[2])
    IN  Norm((a[1] \div g1) * (b[1] \div g2), (a[2] \div g2) * (b[2] \div g1))

\* a1/a2 <= b1/b2 for a2, b2 > 0, by comparing continued fractions (no products)
RECURSIVE FracLeq(_, _, _, _)
FracLeq(a1, a2, b1, b2) ==
    LET qa == a1 \div a2
        qb == b1 \div b2
        ra == a1 % a2
        rb == b1 % b2
    IN  IF qa # qb THEN qa < qb
        ELSE IF ra = 0 THEN TRUE
        ELSE IF rb = 0 THEN FALSE
        ELSE FracLeq(b2, rb, a2, ra)

QLeq(a, b) == FracLeq(a[1], a[2], b[1], b[2])

\* the value of a local that is not bound yet
Unset == <<0, 0>>

---------------------------------------------------------------------------
(* numpy: arrays of one dimension, broadcasting *)

\* Zeros allocating one row too many
ZerosExtra(n, cols) == [r \in 1..(n + 1) |-> [c \in 1..cols |-> Q(0)]]

\* np.zeros((n, cols))
Zeros(n, cols) == [r \in 1..n |-> [c \in 1..cols |-> Q(0)]]

\* the number of columns euler_fw allocates
YoutCols == 1

\* shapes (a,) and (b,) broadcast together
Broadcastable(a, b) == a = b \/ a = 1 \/ b = 1

\* v * q for a vector v and a scalar q
VScale(v, q) == [j \in 1..Len(v) |-> QMul(v[j], q)]

\* a + b for vectors of broadcastable shapes
VAdd(a, b) ==
    LET n == IF Len(a) >= Len(b) THEN Len(a) ELSE Len(b)
    IN  [j \in 1..n |-> QAdd(a[IF Len(a) = 1 THEN 1 ELSE j],
                             b[IF Len(b) = 1 THEN 1 ELSE j])]

---------------------------------------------------------------------------
(* The callbacks *)

\* notebook 55: lambda y, t, l: -l*y
decay(y, tt, l) == VScale(y, QNeg(l))

\* rhs with the forward rate of first order in y[0]
rhsFirstOrder(y, tt, kf, kb) ==
    LET rf == QMul(QMul(kf, y[1]), y[2])
        rb == QMul(kb, QMul(y[3], y[3]))
    IN  << QMul(Q(2), QSub(rb, rf)), QSub(rb, rf), QMul(Q(2), QSub(rf, rb)) >>

\* rhs producing one NOBr per turnover instead of two
rhsUnbalanced(y, tt, kf, kb) ==
    LET rf == QMul(QMul(kf, QMul(y[1], y[1])), y[2])
        rb == QMul(kb, QMul(y[3], y[3]))
    IN  << QMul(Q(2), QSub(rb, rf)), QSub(rb, rf), QSub(rf, rb) >>

\* notebook 25: def rhs(y, t, kf, kb)
rhs(y, tt, kf, kb) ==
    LET rf == QMul(QMul(kf, QMul(y[1], y[1])), y[2])
        rb == QMul(kb, QMul(y[3], y[3]))
    IN  << QMul(Q(2), QSub(rb, rf)), QSub(rb, rf), QMul(Q(2), QSub(rf, rb)) >>

\* the exception the ncall-th call of the callback raises, "none" if it returns:
\* rhs of notebook 25 indexes y[1] and y[2]; the "faulty" callback stands for
\* any callback that raises, here at its fa-th call
RhsRaises(name, y, ncall, fa) ==
    IF name = "faulty" /\ ncall = fa THEN "RhsError"
    ELSE IF name = "kinetics" /\ Len(y) < 3 THEN "IndexError"
    ELSE "none"

\* the value the callback returns ("faulty" computes the decay when it returns)
RhsValue(name, y, tt, p) ==
    IF name = "kinetics" THEN rhs(y, tt, p[1], p[2]) ELSE decay(y, tt, p[1])

---------------------------------------------------------------------------
(* The statements of euler_fw *)

\* LoopDone leaving the loop one transition early
LoopDoneEarly(k, n) == k >= n - 1

\* the loop over enumerate(tout[1:], 1) is exhausted when i reaches len(tout)
LoopDone(k, n) == k >= n

\* the time argument of rhs(yout[i-1], t, *params)
CallTime(tn, to) == tn

\* PassParams handing the parameters over in reverse order
PassParamsReversed(p) == [j \in 1..Len(p) |-> p[Len(p) + 1 - j]]

\* *params
PassParams(p) == p

\* StepSize taking the spacing of the first two grid points for every step
StepSizeUniform(tn, to) == QSub(tout[2], tout[1])

\* h = t - t_old
StepSize(tn, to) == QSub(tn, to)

\* EulerUpdate adding the derivative without the step size
EulerUpdateNoStep(y, d, hh) == VAdd(y, d)

\* yout[i-1] + dydt*h
EulerUpdate(y, d, hh) == VAdd(y, VScale(d, hh))

\* InBounds admitting the index one past the end
InBoundsLax(r, n) == 0 <= r /\ r <= n

\* index r (Python value, not negative) lies within an axis of size n
InBounds(r, n) == 0 <= r /\ r < n

\* WriteIndex assigning the entry before the current one
WriteIndexPrev(k) == k - 1

\* the index assigned by yout[i] = ...
WriteIndex(k) == k

\* yout[r] = v succeeds when v broadcasts to the row's shape (YoutCols,)
StoreOk(v) == Len(v) = YoutCols \/ Len(v) = 1

\* the row stored by yout[r] = v
Stored(v) == [c \in 1..YoutCols |-> v[IF Len(v) = 1 THEN 1 ELSE c]]

\* Raised swallowing the exception and returning the rows computed so far
RaisedPartial(buf, k) == <<"done", SubSeq(buf, 1, k)>>

\* an exception raised by the callback leaves euler_fw: <<pc, ret>> after it
Raised(buf, k) == <<"error", <<>> >>

---------------------------------------------------------------------------
(* The inputs *)

TimeVals == {Q(0), Q(1), Q(3)}

ArbGrids == UNION {[1..n -> TimeVals] : n \in 0..MaxGrid}

\* np.linspace(0, 1, num)
Linspace(num) == [j \in 1..num |-> Frac(j - 1, num - 1)]

LinGrids == {Linspace(n + 1) : n \in 1..MaxSteps}

Y0s == { <<Q(3)>>, <<Q(1)>>, <<Q(1), Q(1), Q(0)>>, <<Q(1), Q(3)>> }

DecayParams == { <<Q(2)>>, <<Q(1)>> }

KinParams == { <<Q(1), Frac(1, 2)>>, <<Frac(1, 2), Q(1)>>, <<Q(1), Q(1)>> }

Init ==
    /\ y0 \in Y0s
    /\ tout \in ArbGrids \cup LinGrids
    /\ \/ rhsName = "decay" /\ params \in DecayParams /\ failAt = 0
       \/ rhsName = "faulty" /\ params \in DecayParams /\ failAt \in 1..MaxGrid
       \/ rhsName = "kinetics" /\ params \in KinParams /\ failAt = 0
    /\ yout = <<>>
    /\ t_old = Unset /\ t = Unset /\ h = Unset
    /\ i = 0
    /\ dydt = <<>>
    /\ pc = "alloc"
    /\ err = "none"
    /\ calls = <<>>
    /\ ret = <<>>
    /\ writes = <<>>
    /\ errAt = "none"
    /\ CyIdle
    /\ ExtIdle

inputs == <<rhsName, failAt, y0, tout, params>>

\* yout = np.zeros((len(tout), 1))
Alloc ==
    /\ pc = "alloc"
    /\ yout' = Zeros(Len(tout), YoutCols)
    /\ pc' = "store0"
    /\ UNCHANGED <<inputs, t_old, t, i, dydt, h, err, calls, ret, writes, errAt>>
    /\ UNCHANGED <<cyVars, extVars>>

\* yout[0] = y0
StoreInit ==
    /\ pc = "store0"
    /\ IF ~InBounds(0, Len(yout))
       THEN /\ pc' = "error" /\ err' = "IndexError" /\ errAt' = "store0"
            /\ UNCHANGED <<yout, writes>>
       ELSE IF ~StoreOk(y0)
       THEN /\ pc' = "error" /\ err' = "ValueError" /\ errAt' = "store0"
            /\ UNCHANGED <<yout, writes>>
       ELSE /\ pc' = "readt0"
            /\ yout' = [yout EXCEPT ![1] = Stored(y0)]
            /\ writes' = Append(writes, 0)
            /\ UNCHANGED <<err, errAt>>
    /\ UNCHANGED <<inputs, t_old, t, i, dydt, h, calls, ret>>
    /\ UNCHANGED <<cyVars, extVars>>

\* t_old = tout[0]
ReadT0 ==
    /\ pc = "readt0"
    /\ IF ~InBounds(0, Len(tout))
       THEN /\ pc' = "error" /\ err' = "IndexError" /\ errAt' = "readt0"
            /\ UNCHANGED <<t_old, i>>
       ELSE /\ pc' = "loop" /\ t_old' = tout[1] /\ i' = 1
            /\ UNCHANGED <<err, errAt>>
    /\ UNCHANGED <<inputs, yout, t, dydt, h, calls, ret, writes>>
    /\ UNCHANGED <<cyVars, extVars>>

\* for i, t in enumerate(tout[1:], 1): dydt = rhs(yout[i-1], t, *params)
CallRhs ==
    /\ pc = "loop"
    /\ ~LoopDone(i, Len(tout))
    /\ t' = tout[i + 1]
    /\ LET yarg == yout[i]
           targ == CallTime(t', t_old)
           parg == PassParams(params)
           exc  == RhsRaises(rhsName, yarg, Len(calls) + 1, failAt)
       IN  IF exc # "none"
           THEN /\ calls' = Append(calls, [step |-> i, y |-> yarg, t |-> targ,
                                           params |-> parg, out |-> "raised",
                                           val |-> <<>>])
                /\ pc' = Raised(yout, i)[1]
                /\ ret' = Raised(yout, i)[2]
                /\ err' = exc
                /\ errAt' = "call"
                /\ dydt' = dydt
           ELSE /\ dydt' = RhsValue(rhsName, yarg, targ, parg)
                /\ calls' = Append(calls, [step |-> i, y |-> yarg, t |-> targ,
                                           params |-> parg, out |-> "returned",
                                           val |-> dydt'])
                /\ pc' = "update"
                /\ UNCHANGED <<ret, err, errAt>>
    /\ UNCHANGED <<inputs, yout, t_old, i, h, writes>>
    /\ UNCHANGED <<cyVars, extVars>>

\* h = t - t_old; yout[i] = yout[i-1] + dydt*h; t_old = t
Update ==
    /\ pc = "update"
    /\ h' = StepSize(t, t_old)
    /\ LET new == EulerUpdate(yout[i], dydt, h')
       IN  IF Broadcastable(Len(yout[i]), Len(dydt)) /\ StoreOk(new)
           THEN /\ yout' = [yout EXCEPT ![WriteIndex(i) + 1] = Stored(new)]
                /\ writes' = Append(writes, WriteIndex(i))
                /\ t_old' = t
                /\ i' = i + 1
                /\ pc' = "loop"
                /\ UNCHANGED <<err, errAt>>
           ELSE /\ pc' = "error"
                /\ err' = "ValueError"
                /\ errAt' = "update"
                /\ UNCHANGED <<yout, t_old, i, writes>>
    /\ UNCHANGED <<inputs, t, dydt, calls, ret>>
    /\ UNCHANGED <<cyVars, extVars>>

\* return yout
Return ==
    /\ pc = "loop"
    /\ LoopDone(i, Len(tout))
    /\ ret' = yout
    /\ pc' = "done"
    /\ UNCHANGED <<inputs, yout, t_old, t, i, dydt, h, err, calls, writes, errAt>>
    /\ UNCHANGED <<cyVars, extVars>>

Next == Alloc \/ StoreInit \/ ReadT0 \/ CallRhs \/ Update \/ Return

Spec == Init /\ [][Next]_vars

---------------------------------------------------------------------------
(* The mass-action formulation of notebook 25 *)

\* net stoichiometric coefficients, one row per species
S == << <<-2, 2>>, <<-1, 1>>, <<2, -2>> >>

\* multiplicities of each reactant, one row per reaction
R == << <<2, 1, 0>>, <<0, 0, 2>> >>

RECURSIVE QPow(_, _)
QPow(a, n) == IF n = 0 THEN Q(1) ELSE QMul(a, QPow(a, n - 1))

RECURSIVE QProd(_)
QProd(s) == IF s = <<>> THEN Q(1) ELSE QMul(Head(s), QProd(Tail(s)))

RECURSIVE QSum(_)
QSum(s) == IF s = <<>> THEN Q(0) ELSE QAdd(Head(s), QSum(Tail(s)))

\* r_j = k_j * prod_l c_l^R[j][l]
Rate(j, c, k) == QMul(k[j], QProd([l \in 1..Len(c) |-> QPow(c[l], R[j][l])]))

\* dc_i/dt = sum_j S[i][j] * r_j
MassAction(c, k) ==
    [s \in 1..Len(S) |->
        QSum([j \in 1..Len(R) |-> QMul(Q(S[s][j]), Rate(j, c, k))])]

---------------------------------------------------------------------------
(* The loop body of euler_fw applied to the three-component system of      *)
(* notebook 25: the trajectory is a sequence of three-component rows, one  *)
(* appended per step.  The buffer of euler_fw itself has one column (see   *)
(* Alloc), so this is the step  yout[i-1] + dydt*h  with dydt from rhs, not *)
(* a run of euler_fw.                                                      *)

KinTimes == {Q(0), Frac(1, 2), Q(1)}

KinGrids == UNION {[1..n -> KinTimes] : n \in 1..(KinSteps + 1)}

KinY0s == { <<Q(1), Q(1), Q(0)>>, <<Q(1), Q(0), Q(1)>>,
            <<Q(1), Q(1), Q(1)>>, <<Q(0), Q(1), Q(1)>> }

KinInit ==
    /\ rhsName = "kinetics"
    /\ failAt = 0
    /\ y0 \in KinY0s
    /\ tout \in KinGrids
    /\ params \in KinParams
    /\ yout = <<y0>>
    /\ t_old = tout[1] /\ t = Unset /\ h = Unset
    /\ i = 1
    /\ dydt = <<>>
    /\ pc = "loop"
    /\ err = "none"
    /\ calls = <<>>
    /\ ret = <<>>
    /\ writes = <<0>>
    /\ errAt = "none"
    /\ CyIdle
    /\ ExtIdle

\* dydt = rhs(yout[i-1], t, *params); h = t - t_old;
\* yout[i] = yout[i-1] + dydt*h; t_old = t
KinStep ==
    /\ pc = "loop"
    /\ ~LoopDone(i, Len(tout))
    /\ t' = tout[i + 1]
    /\ LET yarg == yout[i]
           targ == CallTime(t', t_old)
           parg == PassParams(params)
       IN  /\ dydt' = rhs(yarg, targ, parg[1], parg[2])
           /\ calls' = Append(calls, [step |-> i, y |-> yarg, t |-> targ,
                                      params |-> parg, out |-> "returned",
                                      val |-> dydt'])
           /\ h' = StepSize(t', t_old)
           /\ yout' = Append(yout, EulerUpdate(yarg, dydt', h'))
    /\ writes' = Append(writes, WriteIndex(i))
    /\ t_old' = t'
    /\ i' = i + 1
    /\ UNCHANGED <<inputs, pc, err, ret, errAt>>
    /\ UNCHANGED <<cyVars, extVars>>

\* return yout
KinReturn ==
    /\ pc = "loop"
    /\ LoopDone(i, Len(tout))
    /\ ret' = yout
    /\ pc' = "done"
    /\ UNCHANGED <<inputs, yout, t_old, t, i, dydt, h, err, calls, writes, errAt>>
    /\ UNCHANGED <<cyVars, extVars>>

KinNext == KinStep \/ KinReturn

SpecKin == KinInit /\ [][KinNext]_vars

---------------------------------------------------------------------------
(* Properties *)

\* rows of yout assigned so far
Written == IF pc \in {"alloc", "store0", "readt0"} THEN 0 ELSE i

C2_UpdateRule ==
    \A j \in 2..Written :
        /\ Len(calls) >= j - 1
        /\ calls[j - 1].out = "returned"
        /\ Len(yout[j]) = 1
        /\ yout[j][1] = QAdd(yout[j - 1][1],
                             QMul(calls[j - 1].val[1], QSub(tout[j], tout[j - 1])))

C2_Witness ==
    /\ pc = "done"
    /\ Len(tout) >= 3
    /\ QSub(tout[2], tout[1]) # QSub(tout[3], tout[2])
    /\ calls[2].val[1] # Q(0)
    /\ QSub(tout[3], tout[2]) # Q(0)

\* C3: the call for the transition to grid point j receives the state of
\* grid point j-1 and the time tout[j-1] at which the step starts.
C3_EvalAtStart ==
    \A j \in 1..Len(calls) :
        /\ calls[j].y = yout[j]
        /\ calls[j].t = tout[j]

\* C4: a call that returns has called the callback exactly len(tout) - 1
\* times, the j-th call for transition j; no call is made for the first grid
\* point, and on a grid of length 1 the result is just the initial state.
C4_CallCount ==
    /\ \A j \in 1..Len(calls) : calls[j].step = j /\ j <= Len(tout) - 1
    /\ pc = "done" =>
          /\ Len(calls) = Len(tout) - 1
          /\ \A j \in 1..Len(calls) : calls[j].out = "returned"
          /\ Len(tout) = 1 => calls = <<>> /\ ret = <<y0>>

C4_Witness ==
    /\ pc = "done"
    /\ Len(tout) = 4
    /\ Len(calls) = 3

\* C5: on a grid of n >= 1 points and a callback that does not raise,
\* euler_fw returns n rows, each as long as the initial state, the first
\* equal to the initial state.
C5_Shape ==
    (/\ pc \in {"done", "error"}
     /\ Len(tout) >= 1
     /\ \A j \in 1..Len(calls) : calls[j].out = "returned")
    =>
    (/\ pc = "done"
     /\ Len(ret) = Len(tout)
     /\ \A r \in 1..Len(ret) : Len(ret[r]) = Len(y0)
     /\ ret[1] = y0)

\* C6: once a call of the callback has raised, it is the last call made
\* (no retry, no further call), euler_fw has ended with that exception at
\* that transition, and nothing is returned.
C6_ErrorPropagates ==
    \A j \in 1..Len(calls) :
        calls[j].out = "raised" =>
            /\ j = Len(calls)
            /\ pc = "error"
            /\ err # "none"
            /\ err = RhsRaises(rhsName, calls[j].y, j, failAt)
            /\ ret = <<>>
            /\ i = calls[j].step

C6_Witness ==
    /\ pc = "error"
    /\ rhsName = "faulty"
    /\ Len(calls) >= 2
    /\ calls[Len(calls)].out = "raised"
    /\ Len(tout) > Len(calls) + 1

\* C7: no step of euler_fw changes y0, tout or params, and every call of
\* the callback received the parameter values of params, in order.
C7_InputsUnchanged ==
    /\ [][y0' = y0 /\ tout' = tout /\ params' = params]_vars
    /\ [](\A j \in 1..Len(calls) : calls[j].params = params)

C7_Witness ==
    /\ pc \in {"done", "error"}
    /\ Len(calls) >= 1
    /\ Len(params) = 2
    /\ params[1] # params[2]

\* C8: the value rhs returns is the mass-action derivative S*r with
\* r = (kf*y0^2*y1, kb*y2^2), and it is the same for every time argument.
C8_MassAction ==
    \A j \in 1..Len(calls) :
        /\ calls[j].val = MassAction(calls[j].y, calls[j].params)
        /\ \A tt \in KinTimes :
              rhs(calls[j].y, tt, calls[j].params[1], calls[j].params[2])
                  = calls[j].val

C8_Witness ==
    /\ Len(calls) >= 2
    /\ calls[2].y[1] \notin {Q(0), Q(1)}
    /\ calls[2].y[2] # Q(0)
    /\ calls[2].y[3] # Q(0)
    /\ calls[2].val[1] # Q(0)

---------------------------------------------------------------------------
(* The decay demonstration of notebook 55 *)

\* 3*np.exp(-2*tout) at tout = 1 is 0.4060058497...: a rational enclosure
AnalyticLo == Frac(406005, 1000000)

AnalyticHi == Frac(406006, 1000000)

\* euler_fw(lambda y, t, l: -l*y, 3, np.linspace(0, 1, num), (2,))
DecayDemo ==
    /\ rhsName = "decay"
    /\ y0 = <<Q(3)>>
    /\ params = <<Q(2)>>
    /\ Len(tout) >= 2
    /\ tout = Linspace(Len(tout))

\* C10: for the decay demonstration on n >= 2 uniform steps over [0,1] the
\* error at t = 1, 3*exp(-2) - yout[n], lies between 4/(5n) and 9/(10n): it
\* scales as 1/n, so doubling n divides it by a factor between 16/9 and 9/4.
C10_FirstOrder ==
    (pc = "done" /\ DecayDemo /\ Len(tout) >= 3) =>
        LET n == Len(tout) - 1
            y == ret[n + 1][1]
        IN  /\ QLeq(y, QSub(AnalyticLo, Frac(4, 5 * n)))
            /\ QLeq(QSub(AnalyticHi, Frac(9, 10 * n)), y)

C10_Witness ==
    /\ pc = "done"
    /\ DecayDemo
    /\ Len(tout) = 9

---------------------------------------------------------------------------
(* The trajectory buffer; grids that are empty or not increasing *)

\* C11: the entries of yout are assigned in the order 0, 1, 2, ..., each
\* once; entry j is the step from entry j-1, the grid times tout[j-1] and
\* tout[j] and the parameters; no step changes an entry assigned before it.
C11_WriteOnce ==
    /\ [](writes = [k \in 1..Len(writes) |-> k - 1])
    /\ [](\A j \in 2..Len(writes) :
            yout[j] = Stored(EulerUpdate(
                          yout[j - 1],
                          RhsValue(rhsName, yout[j - 1], tout[j], params),
                          QSub(tout[j], tout[j - 1]))))
    /\ [][\A r \in 1..Len(writes) : yout'[r] = yout[r]]_vars

C11_Witness ==
    /\ pc = "done"
    /\ writes = <<0, 1, 2, 3>>
    /\ yout[2] # yout[1]
    /\ yout[3] # yout[2]
    /\ yout[4] # yout[3]

\* C12: on a non-empty grid, increasing or not, with a callback that does
\* not raise, euler_fw raises nothing itself and returns len(tout) entries
\* after len(tout) - 1 steps.
C12_NoOwnError ==
    (/\ Len(tout) >= 1
     /\ \A j \in 1..Len(calls) : calls[j].out = "returned")
    =>
    (/\ pc # "error"
     /\ err = "none"
     /\ pc = "done" => Len(calls) = Len(tout) - 1 /\ Len(ret) = Len(tout))

\* C13: on an empty grid euler_fw never returns: it ends with an IndexError
\* raised by yout[0] = y0, before t_old is read and before any call of the
\* callback.
C13_EmptyGrid ==
    Len(tout) = 0 =>
        /\ pc \in {"alloc", "store0", "error"}
        /\ calls = <<>>
        /\ ret = <<>>
        /\ writes = <<>>
        /\ t_old = Unset
        /\ pc = "error" => err = "IndexError" /\ errAt = "store0"

C13_Witness ==
    /\ Len(tout) = 0
    /\ pc = "error"
    /\ Len(y0) = 1

---------------------------------------------------------------------------
(* cy_f and cy_f_fastexp of notebook 55.  The modules are built with        *)
(* cythonize([pyxfilename], include_path=['.']) and carry no directive, so  *)
(* indexing a typed ndarray is bounds-checked, also under the address-of    *)
(* operator; indexing a double* is not.  An output element is kept as the   *)
(* term <<f, a, b, c>> standing for a + f(b) + f(c).                        *)

CyVals == {1, 2}

CyArrays == UNION {[1..n -> CyVals] : n \in 0..MaxLen}

\* an element of np.empty(n) that was never assigned
Uninit == <<"uninit", 0, 0, 0>>

\* np.empty(n)
Empty(n) == [k \in 1..n |-> Uninit]

\* libc exp in cy_f, fastexp of fastapprox in cy_f_fastexp
ExpOf(fn) == IF fn = "cy_f" THEN "exp" ELSE "fastexp"

\* _x[i] + exp(2*_y[i] + _x[i]) + exp(3*_z[i])
CyElem(fn, xv, yv, zv) == <<ExpOf(fn), xv, 2 * yv + xv, 3 * zv>>

\* the values p[k] can yield for a double* p into arr: any value when k is
\* outside the array
PtrRead(arr, k) == IF InBounds(k, Len(arr)) THEN {arr[k + 1]} ELSE CyVals

CyInit ==
    /\ cy_fn \in {"cy_f", "cy_f_fastexp"}
    /\ cy_x \in CyArrays /\ cy_y \in CyArrays /\ cy_z \in CyArrays
    /\ cy_out = <<>>
    /\ cy_ptrs = {}
    /\ cy_i = 0
    /\ cy_pc = "alloc"
    /\ cy_err = "none"
    /\ cy_acc = <<>>
    /\ cy_ret = <<>>
    /\ EulerIdle
    /\ ExtIdle

cyInputs == <<cy_fn, cy_x, cy_y, cy_z>>

\* cdef ... out = np.empty(x.size)
CyAlloc ==
    /\ cy_pc = "alloc"
    /\ cy_out' = Empty(Len(cy_x))
    /\ cy_pc' = "ptr_x"
    /\ UNCHANGED <<cyInputs, cy_ptrs, cy_i, cy_err, cy_acc, cy_ret>>
    /\ UNCHANGED <<eulerVars, extVars>>

\* cdef double * p = &arr[0]
TakePtr(here, arr, name, p, next) ==
    /\ cy_pc = here
    /\ IF InBounds(0, Len(arr))
       THEN /\ cy_ptrs' = cy_ptrs \cup {p}
            /\ cy_acc' = Append(cy_acc, [arr |-> name, idx |-> 0, kind |-> "addr"])
            /\ cy_pc' = next
            /\ cy_err' = cy_err
       ELSE /\ cy_pc' = "error"
            /\ cy_err' = "IndexError"
            /\ UNCHANGED <<cy_ptrs, cy_acc>>
    /\ UNCHANGED <<cyInputs, cy_out, cy_i, cy_ret>>
    /\ UNCHANGED <<eulerVars, extVars>>

\* cdef double * _x = &x[0]
CyPtrX == TakePtr("ptr_x", cy_x, "x", "_x", "ptr_y")

\* cdef double * _y = &y[0]
CyPtrY == TakePtr("ptr_y", cy_y, "y", "_y", "ptr_z")

\* cdef double * _z = &z[0]
CyPtrZ == TakePtr("ptr_z", cy_z, "z", "_z", "ptr_out")

\* cdef double * _out = &out[0]
CyPtrOut == TakePtr("ptr_out", cy_out, "out", "_out", "check")

\* if x.size != y.size or x.size != z.size: raise ValueError("Inconsistent length")
CyCheck ==
    /\ cy_pc = "check"
    /\ IF Len(cy_x) # Len(cy_y) \/ Len(cy_x) # Len(cy_z)
       THEN cy_pc' = "error" /\ cy_err' = "ValueError"
       ELSE cy_pc' = "loop" /\ cy_err' = cy_err
    /\ UNCHANGED <<cyInputs, cy_out, cy_ptrs, cy_i, cy_acc, cy_ret>>
    /\ UNCHANGED <<eulerVars, extVars>>

\* for i in range(x.size): _out[i] = _x[i] + exp(2*_y[i] + _x[i]) + exp(3*_z[i])
CyLoop ==
    /\ cy_pc = "loop"
    /\ cy_i < Len(cy_x)
    /\ \E xv \in PtrRead(cy_x, cy_i), yv \in PtrRead(cy_y, cy_i),
          zv \in PtrRead(cy_z, cy_i) :
          cy_out' = [cy_out EXCEPT ![cy_i + 1] = CyElem(cy_fn, xv, yv, zv)]
    /\ cy_acc' = cy_acc \o << [arr |-> "x", idx |-> cy_i, kind |-> "read"],
                              [arr |-> "y", idx |-> cy_i, kind |-> "read"],
                              [arr |-> "z", idx |-> cy_i, kind |-> "read"],
                              [arr |-> "out", idx |-> cy_i, kind |-> "write"] >>
    /\ cy_i' = cy_i + 1
    /\ UNCHANGED <<cyInputs, cy_ptrs, cy_pc, cy_err, cy_ret>>
    /\ UNCHANGED <<eulerVars, extVars>>

\* return out
CyReturn ==
    /\ cy_pc = "loop"
    /\ cy_i >= Len(cy_x)
    /\ cy_ret' = cy_out
    /\ cy_pc' = "done"
    /\ UNCHANGED <<cyInputs, cy_out, cy_ptrs, cy_i, cy_err, cy_acc>>
    /\ UNCHANGED <<eulerVars, extVars>>

CyNext ==
    CyAlloc \/ CyPtrX \/ CyPtrY \/ CyPtrZ \/ CyPtrOut \/ CyCheck \/ CyLoop \/ CyReturn

SpecCy == CyInit /\ [][CyNext]_vars

\* C14: a call with arrays of different sizes ends with ValueError, with no
\* output element written and nothing returned; a call with arrays of equal
\* size returns x.size elements, element k computed from x[k], y[k], z[k];
\* every index accessed lies in 0..x.size-1.
C14_LengthCheck ==
    LET same == Len(cy_x) = Len(cy_y) /\ Len(cy_x) = Len(cy_z)
    IN  /\ (cy_pc \in {"done", "error"} /\ ~same) =>
              /\ cy_pc = "error"
              /\ cy_err = "ValueError"
              /\ \A a \in 1..Len(cy_acc) : cy_acc[a].kind # "write"
              /\ cy_ret = <<>>
        /\ (cy_pc \in {"done", "error"} /\ same) =>
              /\ cy_pc = "done"
              /\ Len(cy_ret) = Len(cy_x)
              /\ \A k \in 1..Len(cy_ret) :
                    cy_ret[k] = <<ExpOf(cy_fn), cy_x[k], 2 * cy_y[k] + cy_x[k],
                                  3 * cy_z[k]>>
        /\ \A a \in 1..Len(cy_acc) : InBounds(cy_acc[a].idx, Len(cy_x))

---------------------------------------------------------------------------
(* make_ext and get_nt_compiler of template.pyxbld.  A path is the sequence *)
(* of its components; a string used as a path is the path of that one       *)
(* component.                                                               *)

\* str.lower on the platform names of the model
Lower(str) == IF str = "Darwin" THEN "darwin" ELSE str

\* os.path.join: empty components before the last add nothing
PathJoin(parts) ==
    LET keep(c) == c # ""
    IN  IF SelectSeq(parts, keep) = <<>> THEN <<"">> ELSE SelectSeq(parts, keep)

\* os.path.dirname
Dirname(path) == SubSeq(path, 1, Len(path) - 1)

\* scipy2017codegen.__file__
PackageFile == <<"site-packages", "scipy2017codegen", "__init__.py">>

\* os.getenv(name, default)
Getenv(env, name, default) == IF name \in DOMAIN env THEN env[name] ELSE default

\* get_nt_compiler falling back to 'mingw32'
get_nt_compiler_mingw(env) == Getenv(env, "SCIPY2017CODEGEN_COMPILER", "mingw32")

\* def get_nt_compiler()
get_nt_compiler(env) == Getenv(env, "SCIPY2017CODEGEN_COMPILER", "msvc")

\* prefix_path = lambda *args: os.path.join(os.environ['CONDA_PREFIX'], *args)
prefix_path(env, args) == PathJoin(<<env["CONDA_PREFIX"]>> \o args)

Platforms == {"linux", "darwin", "Darwin", "win32"}

OsNames == {"posix", "nt"}

EnvValues(name) ==
    IF name = "CONDA_PREFIX" THEN {"", "/opt/conda"} ELSE {"msvc", "mingw32", ""}

Environs ==
    UNION { {e \in [D -> {"", "/opt/conda", "msvc", "mingw32"}] :
                \A n \in D : e[n] \in EnvValues(n)} :
            D \in SUBSET {"CONDA_PREFIX", "SCIPY2017CODEGEN_COMPILER"} }

\* the values render_pyxbld substitutes for %(include_dirs)s and the others
Templates ==
    [include_dirs : {<<>>, << <<"usr", "include">> >>},
     library_dirs : {<<>>, << <<"usr", "lib">> >>},
     libraries : {<<"m">>},
     extra_compile_args : {<<"-O2">>},
     extra_link_args : {<<>>}]

ExtInit ==
    /\ sys_platform \in Platforms
    /\ os_name \in OsNames
    /\ environ \in Environs
    /\ tmpl \in Templates
    /\ ext = <<>>
    /\ osx = FALSE /\ win = FALSE /\ posix = FALSE /\ under_conda = FALSE
    /\ mk_pc = "cythonize"
    /\ EulerIdle
    /\ CyIdle

extInputs == <<sys_platform, os_name, environ, tmpl>>

\* ext = cythonize([pyxfilename], include_path=['.'])[0]
MkCythonize ==
    /\ mk_pc = "cythonize"
    /\ ext' = [include_dirs |-> <<>>, library_dirs |-> <<>>, libraries |-> <<>>,
               extra_compile_args |-> <<>>, extra_link_args |-> <<>>]
    /\ mk_pc' = "extend"
    /\ UNCHANGED <<extInputs, osx, win, posix, under_conda>>
    /\ UNCHANGED <<eulerVars, cyVars>>

\* ext.extra_compile_args.extend(['-std=c99']); ext.include_dirs.extend(...);
\* ext.library_dirs.extend(...)
MkExtend ==
    /\ mk_pc = "extend"
    /\ ext' = [ext EXCEPT
                 !.extra_compile_args = @ \o <<"-std=c99">>,
                 !.include_dirs = @ \o tmpl.include_dirs,
                 !.library_dirs = @ \o tmpl.library_dirs]
    /\ mk_pc' = "detect"
    /\ UNCHANGED <<extInputs, osx, win, posix, under_conda>>
    /\ UNCHANGED <<eulerVars, cyVars>>

\* osx = ...; win = ...; posix = ...; under_conda = 'CONDA_PREFIX' in os.environ
MkDetect ==
    /\ mk_pc = "detect"
    /\ osx' = (Lower(sys_platform) = "darwin")
    /\ win' = (os_name = "nt")
    /\ posix' = (os_name = "posix")
    /\ under_conda' = ("CONDA_PREFIX" \in DOMAIN environ)
    /\ mk_pc' = "conda"
    /\ UNCHANGED <<extInputs, ext>>
    /\ UNCHANGED <<eulerVars, cyVars>>

\* if under_conda: ... (lines 20-26)
MkConda ==
    /\ mk_pc = "conda"
    /\ IF under_conda
       THEN LET root == IF win /\ get_nt_compiler(environ) = "mingw32"
                        THEN << <<environ["CONDA_PREFIX"]>> >> ELSE <<>>
                lib  == IF osx \/ win THEN prefix_path(environ, <<"Library", "lib">>)
                        ELSE prefix_path(environ, <<"lib">>)
                inc  == IF osx \/ win THEN prefix_path(environ, <<"Library", "include">>)
                        ELSE prefix_path(environ, <<"include">>)
            IN  ext' = [ext EXCEPT
                          !.library_dirs = @ \o root \o <<lib>>,
                          !.include_dirs = @ \o <<inc, Dirname(PackageFile)>>]
       ELSE ext' = ext
    /\ mk_pc' = "rest"
    /\ UNCHANGED <<extInputs, osx, win, posix, under_conda>>
    /\ UNCHANGED <<eulerVars, cyVars>>

\* ext.libraries.extend(...); ext.extra_compile_args.extend(...);
\* ext.extra_link_args.extend(...); return ext
MkReturn ==
    /\ mk_pc = "rest"
    /\ ext' = [ext EXCEPT
                 !.libraries = @ \o tmpl.libraries,
                 !.extra_compile_args = @ \o tmpl.extra_compile_args,
                 !.extra_link_args = @ \o tmpl.extra_link_args]
    /\ mk_pc' = "done"
    /\ UNCHANGED <<extInputs, osx, win, posix, under_conda>>
    /\ UNCHANGED <<eulerVars, cyVars>>

ExtNext == MkCythonize \/ MkExtend \/ MkDetect \/ MkConda \/ MkReturn

SpecExt == ExtInit /\ [][ExtNext]_vars

\* C15: the Extension make_ext returns has, after the template's own
\* directories: with CONDA_PREFIX unset, nothing more; with CONDA_PREFIX set,
\* in library_dirs the prefix itself exactly when os.name is 'nt' and
\* SCIPY2017CODEGEN_COMPILER (default 'msvc') is 'mingw32', then the one
\* directory Library/lib (platform darwin or os.name nt) or lib under the
\* prefix, and in include_dirs the one directory Library/include or include
\* under the prefix and then the package directory.
C15_CondaPaths ==
    mk_pc = "done" =>
        LET set == "CONDA_PREFIX" \in DOMAIN environ
            compiler == IF "SCIPY2017CODEGEN_COMPILER" \in DOMAIN environ
                        THEN environ["SCIPY2017CODEGEN_COMPILER"] ELSE "msvc"
            library == Lower(sys_platform) = "darwin" \/ os_name = "nt"
            under(args) == PathJoin(<<environ["CONDA_PREFIX"]>> \o args)
            pkg == <<"site-packages", "scipy2017codegen">>
        IN  IF ~set
            THEN /\ ext.include_dirs = tmpl.include_dirs
                 /\ ext.library_dirs = tmpl.library_dirs
            ELSE /\ ext.include_dirs = tmpl.include_dirs \o
                       << (IF library THEN under(<<"Library", "include">>)
                           ELSE under(<<"include">>)), pkg >>
                 /\ ext.library_dirs = tmpl.library_dirs \o
                       (IF os_name = "nt" /\ compiler = "mingw32"
                        THEN << <<environ["CONDA_PREFIX"]>> >> ELSE <<>>) \o
                       << (IF library THEN under(<<"Library", "lib">>)
                           ELSE under(<<"lib">>)) >>

C15_Witness ==
    /\ mk_pc = "done"
    /\ "CONDA_PREFIX" \in DOMAIN environ
    /\ environ["CONDA_PREFIX"] = "/opt/conda"
    /\ os_name = "nt"
    /\ get_nt_compiler(environ) = "mingw32"
    /\ Len(ext.library_dirs) = Len(tmpl.library_dirs) + 2
    /\ Len(ext.include_dirs) = Len(tmpl.include_dirs) + 2

====
